---- MODULE Spec2Model ----
(***************************************************************************)
(* The deployment pipeline of src/main.py: the /deploy and /status         *)
(* handlers, the background task build_and_push_task, and the helpers      *)
(* update_firestore_status and zip_directory.                              *)
(*                                                                         *)
(* State outside the process is modelled as the program names it: the      *)
(* Firestore collection "deployments" (ledger, keyed by document id), the  *)
(* local filesystem (fs, keyed by path), and the storage bucket (bucket,   *)
(* keyed by blob name).  Every call on a remote service (git, Cloud        *)
(* Storage, Cloud Build, Firestore) either returns or raises; the local    *)
(* removals of the finally block (shutil.rmtree, os.remove) return.        *)
(***************************************************************************)
EXTENDS Integers, Sequences, FiniteSets, TLC

\* Number of accepted /deploy requests a run of the model may contain.
MaxRequests == 2

VARIABLES
    ledger,   \* Firestore collection "deployments": document id -> document
    fs,       \* local filesystem: path (sequence of names) -> node
    bucket,   \* storage bucket: blob name -> uploaded content
    tasks,    \* request id -> the handler/thread working on it and its locals
    ref,      \* request id -> the same run replayed with every ledger write succeeding
    nextId    \* how many request ids uuid.uuid4 has handed out, plus one

vars == <<ledger, fs, bucket, tasks, ref, nextId>>

(***************************************************************************)
(* Strings that the program takes apart are sequences of characters.       *)
(***************************************************************************)
GitSuffix == <<".", "g", "i", "t">>

\* "https://example.com/org/app.git" shortened to its shape.
UrlApp == <<"h", "/", "o", "/", "a", "p", "p", ".", "g", "i", "t">>

IsPrefixAt(s, p, i) ==
    /\ i + Len(p) - 1 <= Len(s)
    /\ \A k \in 1..Len(p) : s[i + k - 1] = p[k]

\* str.replace(old, ""): every non-overlapping occurrence, scanning from the left.
RECURSIVE RemoveAll(_, _, _)
RemoveAll(s, old, i) ==
    IF i > Len(s) THEN <<>>
    ELSE IF IsPrefixAt(s, old, i) THEN RemoveAll(s, old, i + Len(old))
    ELSE <<s[i]>> \o RemoveAll(s, old, i + 1)

\* str.split("/")[-1]: what follows the last "/", the whole string if there is none.
RECURSIVE LastSegmentFrom(_, _)
LastSegmentFrom(s, i) ==
    IF i = 0 THEN s
    ELSE IF s[i] = "/" THEN SubSeq(s, i + 1, Len(s))
    ELSE LastSegmentFrom(s, i - 1)

LastSegment(s) == LastSegmentFrom(s, Len(s))

repo_name(github_url) == RemoveAll(LastSegment(github_url), GitSuffix, 1)

\* The settings of config.py, read from the environment.
gcp_project_id == "PROJECT"
gcp_region == "REGION"
gar_repository_name == "REPO"
gcp_storage_bucket == "perd-fd33f.firebasestorage.app"

image_tag(github_url, request_id) ==
    <<gcp_region, "-docker.pkg.dev/", gcp_project_id, "/", gar_repository_name, "/",
      repo_name(github_url), ":", request_id>>

(***************************************************************************)
(* Names derived from the request id.                                      *)
(***************************************************************************)
RequestId(n) == "id" \o ToString(n)

RequestIds == {RequestId(n) : n \in 1..MaxRequests}

\* A working directory whose name leaves out the request id.
temp_dir_shared(request_id) == "temp_build"

temp_dir(request_id) == "temp_build_" \o request_id

archive_path(request_id) == temp_dir(request_id) \o ".zip"

blob_name(request_id) == "source/" \o request_id \o ".zip"

(***************************************************************************)
(* Filesystem: a function from paths to nodes.                             *)
(***************************************************************************)
DirNode == [kind |-> "dir"]

FileNode(data) == [kind |-> "file", data |-> data]

Exists(path) == path \in DOMAIN fs

IsUnder(path, folder) ==
    /\ Len(path) > Len(folder)
    /\ SubSeq(path, 1, Len(folder)) = folder

\* zipf.write(file_path) without an arcname: the entry is named by the path walked.
relpath_unrooted(file_path, folder_path) == file_path

\* os.path.relpath(file_path, folder_path) for a file below folder_path
relpath(file_path, folder_path) == SubSeq(file_path, Len(folder_path) + 1, Len(file_path))

\* The entries zip_directory writes: one per file os.walk finds, named by relpath.
zip_directory(files, folder_path) ==
    {relpath(p, folder_path) :
        p \in {q \in DOMAIN files : IsUnder(q, folder_path) /\ files[q].kind = "file"}}

\* shutil.rmtree(path)
rmtree(files, path) ==
    [q \in {p \in DOMAIN files : p # path /\ ~IsUnder(p, path)} |-> files[q]]

\* os.remove(path)
remove(files, path) == [q \in DOMAIN files \ {path} |-> files[q]]

\* The repositories git can deliver, as files relative to the clone's root.
RepoWithDockerfile == {<<"Dockerfile">>, <<"src", "app.py">>}

RepoWithoutDockerfile == {<<"src", "Dockerfile">>, <<"README.md">>}

Repos == {RepoWithDockerfile, RepoWithoutDockerfile}

\* The directories on the way to the files of `tree`.
ParentDirs(tree) == UNION {{SubSeq(p, 1, k) : k \in 1..(Len(p) - 1)} : p \in tree}

\* The nodes a clone of `tree` into `dest` creates below dest.
Materialize(files, dest, tree) ==
    LET dirs == {dest \o d : d \in ParentDirs(tree)} \cup {dest}
        leaves == {dest \o p : p \in tree}
    IN [q \in DOMAIN files \cup dirs \cup leaves |->
           IF q \in leaves THEN FileNode("blob")
           ELSE IF q \in dirs THEN DirNode
           ELSE files[q]]

(***************************************************************************)
(* Ledger documents: functions from field names to values.                 *)
(***************************************************************************)
\* dict.update / set(merge=True): supplied keys overwrite, the others stay
Merge(old, new) ==
    [k \in DOMAIN old \cup DOMAIN new |-> IF k \in DOMAIN new THEN new[k] ELSE old[k]]

EmptyDict == [k \in {} |-> ""]

\* data.get(key, default)
Get(data, key, default) == IF key \in DOMAIN data THEN data[key] ELSE default

\* update_firestore_status with no try/except: a failed write reaches the caller.
update_firestore_status_unguarded(led, request_id, status, metadata, ok, clock) ==
    LET base == [status |-> status, timestamp |-> clock]
        data == IF DOMAIN metadata # {} THEN Merge(base, metadata) ELSE base
        old == Get(led, request_id, EmptyDict)
    IN [ledger |-> IF ok
                   THEN [k \in DOMAIN led \cup {request_id} |->
                            IF k = request_id THEN Merge(old, data) ELSE led[k]]
                   ELSE led,
        stored |-> ok,
        raised |-> ~ok]

\* update_firestore_status with doc_ref.set(data) without merge=True: the document
\* is replaced by the supplied fields.
update_firestore_status_overwrite(led, request_id, status, metadata, ok, clock) ==
    LET base == [status |-> status, timestamp |-> clock]
        data == IF DOMAIN metadata # {} THEN Merge(base, metadata) ELSE base
    IN [ledger |-> IF ok
                   THEN [k \in DOMAIN led \cup {request_id} |->
                            IF k = request_id THEN data ELSE led[k]]
                   ELSE led,
        stored |-> ok,
        raised |-> FALSE]

\* update_firestore_status(request_id, status, metadata): `ok` says whether the
\* Firestore calls return; when they raise, the except branch logs and returns.
update_firestore_status(led, request_id, status, metadata, ok, clock) ==
    LET base == [status |-> status, timestamp |-> clock]
        data == IF DOMAIN metadata # {} THEN Merge(base, metadata) ELSE base
        old == Get(led, request_id, EmptyDict)
    IN [ledger |-> IF ok
                   THEN [k \in DOMAIN led \cup {request_id} |->
                            IF k = request_id THEN Merge(old, data) ELSE led[k]]
                   ELSE led,
        stored |-> ok,
        raised |-> FALSE]

\* One call of update_firestore_status as the caller made it.
Write(status, metadata) == [status |-> status, metadata |-> metadata]

(***************************************************************************)
(* The handlers and the thread of one request, with the locals they keep.  *)
(* pc names the statement the request is at.                               *)
(***************************************************************************)
NoError == <<>>

\* cloudbuild_v1.Build() before its fields are set.
NoBuild ==
    [steps |-> <<>>, source |-> [storage_source |-> [bucket |-> "", object_ |-> ""]],
     images |-> <<>>]

\* The build of lines 105-128: the two docker steps, the staged source, the image.
build(github_url, request_id) ==
    LET tag == image_tag(github_url, request_id)
    IN [steps |-> << [name |-> "gcr.io/cloud-builders/docker",
                      args |-> <<"build", "-t", tag, ".">>],
                     [name |-> "gcr.io/cloud-builders/docker",
                      args |-> <<"push", tag>>] >>,
        source |-> [storage_source |-> [bucket |-> gcp_storage_bucket,
                                        object_ |-> blob_name(request_id)]],
        images |-> <<tag>>]

Locals(pc, github_url, workflow_name, user_id) ==
    [pc |-> pc, github_url |-> github_url, workflow_name |-> workflow_name,
     user_id |-> user_id,
     e |-> NoError,        \* the exception the except clause catches
     build_id |-> "",      \* operation.metadata.build.id
     build |-> NoBuild,    \* the build create_build was given
     result |-> "",        \* result.status
     raised |-> FALSE,     \* an exception is leaving the thread or the handler
     trace |-> <<>>,       \* the stages attempted, in order
     writes |-> <<>>,      \* the calls of update_firestore_status, in order
     stored |-> <<>>,      \* for each of them, whether Firestore stored the write
     dockerfile |-> "",    \* what the Dockerfile check found
     deleted |-> ""]       \* how blob.delete() ended

Unused == Locals("unused", <<>>, "", "")

\* datetime.datetime.now(datetime.timezone.utc) at a ledger write of a request: time
\* is counted in the writes the request has made, so that it grows from each write of
\* a request to its next.
Clock(t) == Len(t.writes) + 1

Response(code, body) == [code |-> code, body |-> body]

\* The JSON bodies posted to /deploy.
Payloads ==
    { EmptyDict,
      [workflow_name |-> "nightly"],
      [github_url |-> UrlApp, workflow_name |-> "nightly"] }

\* The terminal states Cloud Build reports.
BuildStatuses == {"SUCCESS", "FAILURE", "TIMEOUT"}

\* The request with every ledger write succeeding takes the same step when it is
\* at the same statement.
Replay(request_id, after) ==
    [ref EXCEPT ![request_id] = IF @.pc = tasks[request_id].pc THEN after ELSE @]

Init ==
    /\ ledger = EmptyDict
    /\ fs = EmptyDict
    /\ bucket = EmptyDict
    /\ tasks = [r \in RequestIds |-> Unused]
    /\ ref = [r \in RequestIds |-> Unused]
    /\ nextId = 1

(***************************************************************************)
(* POST /deploy                                                            *)
(***************************************************************************)
\* The answers of deploy: to a body without github_url, to a request whose PENDING
\* write let an exception through, and to an accepted request.
deploy_rejected == Response(400, [error |-> "Missing github_url"])

deploy_failed == Response(500, [error |-> "Internal Server Error"])

deploy_started(request_id) ==
    Response(200, [message |-> "Deployment started",
                   request_id |-> request_id,
                   status_url |-> "/status/" \o request_id])

\* deploy, lines 169-171: a body without github_url is answered 400 and nothing is
\* written or started
DeployRejected(data) ==
    /\ (DOMAIN data = {} \/ "github_url" \notin DOMAIN data)
    /\ UNCHANGED vars

PendingMetadata(request_id, github_url, workflow_name, user_id) ==
    [request_id |-> request_id, github_url |-> github_url,
     workflow_name |-> workflow_name, user_id |-> user_id]

\* deploy starting the thread without having made its PENDING write.
DeployLocals_thread_only(request_id, data, w) ==
    Locals("thread_start", data["github_url"],
           Get(data, "workflow_name", "unnamed"), Get(data, "userId", "anonymous"))

\* The locals of deploy after its ledger write (lines 173-184).
DeployLocals(request_id, data, w) ==
    LET github_url == data["github_url"]
        workflow_name == Get(data, "workflow_name", "unnamed")
        user_id == Get(data, "userId", "anonymous")
    IN [Locals("thread_start", github_url, workflow_name, user_id) EXCEPT
           !.writes = <<Write("PENDING",
                              PendingMetadata(request_id, github_url, workflow_name, user_id))>>,
           !.stored = <<w.stored>>,
           !.raised = w.raised,
           !.pc = IF w.raised THEN "done" ELSE "thread_start"]

\* deploy, lines 173-184: the request id and the PENDING write
DeployAccepted(data, ok) ==
    /\ DOMAIN data # {} /\ "github_url" \in DOMAIN data
    /\ nextId <= MaxRequests
    /\ LET request_id == RequestId(nextId)
           md == PendingMetadata(request_id, data["github_url"],
                                 Get(data, "workflow_name", "unnamed"),
                                 Get(data, "userId", "anonymous"))
           w == update_firestore_status(ledger, request_id, "PENDING", md, ok, Clock(tasks[request_id]))
           wref == update_firestore_status(ledger, request_id, "PENDING", md, TRUE, Clock(tasks[request_id]))
       IN /\ ledger' = w.ledger
          /\ tasks' = [tasks EXCEPT ![request_id] = DeployLocals(request_id, data, w)]
          /\ ref' = [ref EXCEPT ![request_id] = DeployLocals(request_id, data, wref)]
    /\ nextId' = nextId + 1
    /\ UNCHANGED <<fs, bucket>>

ThreadStartLocals(t) == [t EXCEPT !.pc = "in_progress"]

\* deploy, lines 186-196: the thread is started and deploy_started(request_id) returned
ThreadStart(request_id) ==
    /\ tasks[request_id].pc = "thread_start"
    /\ tasks' = [tasks EXCEPT ![request_id] = ThreadStartLocals(@)]
    /\ ref' = Replay(request_id, ThreadStartLocals(ref[request_id]))
    /\ UNCHANGED <<ledger, fs, bucket, nextId>>

(***************************************************************************)
(* GET /status/<request_id>                                                *)
(***************************************************************************)
\* check_status without the test of doc.exists: to_dict() of a missing document is
\* None, data.get raises and the except clause answers 500.
check_status_unchecked(led, request_id, ok) ==
    IF ok /\ request_id \in DOMAIN led
    THEN Response(200, [status |-> Get(led[request_id], "status", "None"),
                        request_id |-> request_id])
    ELSE Response(500, [error |-> "Internal server error"])

\* check_status: `ok` says whether the Firestore read returns
check_status(led, request_id, ok) ==
    IF ~ok THEN Response(500, [error |-> "Internal server error"])
    ELSE IF request_id \in DOMAIN led
    THEN Response(200, [status |-> Get(led[request_id], "status", "None"),
                        request_id |-> request_id])
    ELSE Response(404, [error |-> "Deployment not found"])

\* A status query answers check_status(ledger, request_id, ok) and writes nothing.
CheckStatus(request_id, ok) ==
    /\ check_status(ledger, request_id, ok).code \in {200, 404, 500}
    /\ UNCHANGED vars

(***************************************************************************)
(* build_and_push_task                                                     *)
(***************************************************************************)
\* A stage of the pipeline is attempted.
Stage(t, name) == [t EXCEPT !.trace = Append(@, name)]

\* A try block with no except clause: the exception goes to the finally clause and out.
Raise_uncaught(t, message) == [t EXCEPT !.e = message, !.raised = TRUE, !.pc = "finally"]

\* An exception raised inside the try block reaches `except Exception as e`.
Raise(t, message) == [t EXCEPT !.e = message, !.pc = "except"]

\* A call of update_firestore_status inside the try block, then statement `next`.
Wrote(t, status, metadata, w, next) ==
    LET u == [t EXCEPT !.writes = Append(@, Write(status, metadata)),
                       !.stored = Append(@, w.stored)]
    IN IF w.raised THEN Raise(u, <<"firestore write failed">>) ELSE [u EXCEPT !.pc = next]

InProgressLocals(t, w) ==
    [t EXCEPT !.writes = Append(@, Write("IN_PROGRESS",
                                         [workflow_name |-> t.workflow_name,
                                          user_id |-> t.user_id])),
              !.stored = Append(@, w.stored),
              !.raised = w.raised,
              !.pc = IF w.raised THEN "done" ELSE "clone"]

\* lines 63-67, before the try block: the IN_PROGRESS write
InProgress(request_id, ok) ==
    /\ tasks[request_id].pc = "in_progress"
    /\ LET t == tasks[request_id]
           md == [workflow_name |-> t.workflow_name, user_id |-> t.user_id]
           w == update_firestore_status(ledger, request_id, "IN_PROGRESS", md, ok, Clock(tasks[request_id]))
           wref == update_firestore_status(ledger, request_id, "IN_PROGRESS", md, TRUE, Clock(tasks[request_id]))
       IN /\ ledger' = w.ledger
          /\ tasks' = [tasks EXCEPT ![request_id] = InProgressLocals(@, w)]
          /\ ref' = Replay(request_id, InProgressLocals(ref[request_id], wref))
    /\ UNCHANGED <<fs, bucket, nextId>>

CloneOutcomes ==
    {[kind |-> "makedirs raises"], [kind |-> "clone raises"]}
        \cup {[kind |-> "ok", tree |-> tree] : tree \in Repos}

CloneLocals(t, outcome) ==
    IF outcome.kind = "ok"
    THEN [Stage(t, "fetch") EXCEPT !.pc = "check"]
    ELSE Raise(Stage(t, "fetch"), <<outcome.kind>>)

\* lines 72-75: os.makedirs and git.Repo.clone_from
Clone(request_id, outcome) ==
    /\ tasks[request_id].pc = "clone"
    /\ LET dest == <<temp_dir(request_id)>>
       IN fs' = CASE outcome.kind = "makedirs raises" -> fs
                  [] outcome.kind = "clone raises" -> Materialize(fs, dest, {})
                  [] outcome.kind = "ok" -> Materialize(fs, dest, outcome.tree)
    /\ tasks' = [tasks EXCEPT ![request_id] = CloneLocals(@, outcome)]
    /\ ref' = Replay(request_id, CloneLocals(ref[request_id], outcome))
    /\ UNCHANGED <<ledger, bucket, nextId>>

NoDockerfile == [error |-> <<"No Dockerfile found">>]

\* The check without the early return: the pipeline goes on without a Dockerfile.
CheckLocals_no_gate(t, found, w) ==
    [Stage(t, "check") EXCEPT !.dockerfile = IF found THEN "found" ELSE "missing",
                              !.pc = "zip"]

\* The missing-Dockerfile branch without its `return`: FAILURE is written and the
\* pipeline goes on.
CheckLocals_no_return(t, found, w) ==
    IF found
    THEN [Stage(t, "check") EXCEPT !.dockerfile = "found", !.pc = "zip"]
    ELSE Wrote([Stage(t, "check") EXCEPT !.dockerfile = "missing"],
               "FAILURE", NoDockerfile, w, "zip")

CheckLocals(t, found, w) ==
    IF found
    THEN [Stage(t, "check") EXCEPT !.dockerfile = "found", !.pc = "zip"]
    ELSE Wrote([Stage(t, "check") EXCEPT !.dockerfile = "missing"],
               "FAILURE", NoDockerfile, w, "finally")

\* lines 77-81: the Dockerfile gate; a missing Dockerfile is recorded and the task returns
CheckDockerfile(request_id, ok) ==
    /\ tasks[request_id].pc = "check"
    /\ LET found == Exists(<<temp_dir(request_id), "Dockerfile">>)
           w == update_firestore_status(ledger, request_id, "FAILURE", NoDockerfile, ok, Clock(tasks[request_id]))
           wref == update_firestore_status(ledger, request_id, "FAILURE", NoDockerfile, TRUE, Clock(tasks[request_id]))
       IN /\ ledger' = IF found THEN ledger ELSE w.ledger
          /\ tasks' = [tasks EXCEPT ![request_id] = CheckLocals(@, found, w)]
          /\ ref' = Replay(request_id, CheckLocals(ref[request_id], found, wref))
    /\ UNCHANGED <<fs, bucket, nextId>>

ZipOutcomes == {"ok", "raises", "raises with a partial file"}

ZipLocals(t, outcome) ==
    IF outcome = "ok"
    THEN [Stage(t, "archive") EXCEPT !.pc = "upload"]
    ELSE Raise(Stage(t, "archive"), <<"zip: ", outcome>>)

\* lines 83-85: zip_directory(temp_dir, archive_path)
Zip(request_id, outcome) ==
    /\ tasks[request_id].pc = "zip"
    /\ LET out == <<archive_path(request_id)>>
           entries == zip_directory(fs, <<temp_dir(request_id)>>)
       IN fs' = CASE outcome = "ok" -> Merge(fs, [q \in {out} |-> FileNode(entries)])
                  [] outcome = "raises" -> fs
                  [] outcome = "raises with a partial file" ->
                         Merge(fs, [q \in {out} |-> FileNode({})])
    /\ tasks' = [tasks EXCEPT ![request_id] = ZipLocals(@, outcome)]
    /\ ref' = Replay(request_id, ZipLocals(ref[request_id], outcome))
    /\ UNCHANGED <<ledger, bucket, nextId>>

UploadOutcomes == {"ok", "raises"}

UploadLocals(t, outcome) ==
    IF outcome = "ok"
    THEN [Stage(t, "stage") EXCEPT !.pc = "submit"]
    ELSE Raise(Stage(t, "stage"), <<"upload: ", outcome>>)

\* lines 87-100: the storage client, the bucket (a failed get_bucket falls back to
\* bucket()) and blob.upload_from_filename(archive_path)
Upload(request_id, outcome) ==
    /\ tasks[request_id].pc = "upload"
    /\ LET name == blob_name(request_id)
           content == fs[<<archive_path(request_id)>>].data
       IN bucket' = IF outcome = "raises" THEN bucket
                    ELSE Merge(bucket, [b \in {name} |-> content])
    /\ tasks' = [tasks EXCEPT ![request_id] = UploadLocals(@, outcome)]
    /\ ref' = Replay(request_id, UploadLocals(ref[request_id], outcome))
    /\ UNCHANGED <<ledger, fs, nextId>>

SubmitOutcomes == {"ok", "raises"}

SubmitLocals(t, request_id, outcome) ==
    IF outcome = "ok"
    THEN [Stage(t, "submit") EXCEPT !.build = build(t.github_url, request_id),
                                    !.build_id = "build-" \o request_id,
                                    !.pc = "await"]
    ELSE Raise(Stage(t, "submit"), <<"create_build: ", outcome>>)

\* lines 102-133: the build specification and build_client.create_build
Submit(request_id, outcome) ==
    /\ tasks[request_id].pc = "submit"
    /\ tasks' = [tasks EXCEPT ![request_id] = SubmitLocals(@, request_id, outcome)]
    /\ ref' = Replay(request_id, SubmitLocals(ref[request_id], request_id, outcome))
    /\ UNCHANGED <<ledger, fs, bucket, nextId>>

AwaitOutcomes == BuildStatuses \cup {"raises"}

\* The delete of the staged object placed before the status write, which is lost.
AwaitLocals_delete_first(t, outcome) ==
    IF outcome \in BuildStatuses
    THEN [Stage(t, "await") EXCEPT !.result = outcome, !.pc = "unstage"]
    ELSE Raise(Stage(t, "await"), <<"operation.result: ", outcome>>)

AwaitLocals(t, outcome) ==
    IF outcome \in BuildStatuses
    THEN [Stage(t, "await") EXCEPT !.result = outcome, !.pc = "record"]
    ELSE Raise(Stage(t, "await"), <<"operation.result: ", outcome>>)

\* lines 135-138: operation.result()
Await(request_id, outcome) ==
    /\ tasks[request_id].pc = "await"
    /\ tasks' = [tasks EXCEPT ![request_id] = AwaitLocals(@, outcome)]
    /\ ref' = Replay(request_id, AwaitLocals(ref[request_id], outcome))
    /\ UNCHANGED <<ledger, fs, bucket, nextId>>

\* The comparison of line 140 left out: every finished build is taken for a success.
ResultStatus_always_success(t) == "SUCCESS"

\* The comparison of line 140 turned round.
ResultStatus_negated(t) == IF t.result # "SUCCESS" THEN "SUCCESS" ELSE "FAILURE"

\* The status and metadata of lines 140-149.
ResultStatus(t) == IF t.result = "SUCCESS" THEN "SUCCESS" ELSE "FAILURE"

\* The SUCCESS metadata without the build id.
ResultMetadata_without_build_id(t, request_id) ==
    IF t.result = "SUCCESS"
    THEN [image_tag |-> image_tag(t.github_url, request_id)]
    ELSE [build_id |-> t.build_id,
          error |-> <<"Cloud Build failed with status: ", t.result>>]

ResultMetadata(t, request_id) ==
    IF t.result = "SUCCESS"
    THEN [image_tag |-> image_tag(t.github_url, request_id), build_id |-> t.build_id]
    ELSE [build_id |-> t.build_id,
          error |-> <<"Cloud Build failed with status: ", t.result>>]

RecordLocals(t, request_id, w) ==
    Wrote(t, ResultStatus(t), ResultMetadata(t, request_id), w, "unstage")

\* lines 140-149: the terminal write after the build finished
RecordResult(request_id, ok) ==
    /\ tasks[request_id].pc = "record"
    /\ LET t == tasks[request_id]
           w == update_firestore_status(ledger, request_id, ResultStatus(t),
                                        ResultMetadata(t, request_id), ok, Clock(tasks[request_id]))
           wref == update_firestore_status(ledger, request_id, ResultStatus(t),
                                           ResultMetadata(t, request_id), TRUE, Clock(tasks[request_id]))
       IN /\ ledger' = w.ledger
          /\ tasks' = [tasks EXCEPT ![request_id] = RecordLocals(@, request_id, w)]
          /\ ref' = Replay(request_id, RecordLocals(ref[request_id], request_id, wref))
    /\ UNCHANGED <<fs, bucket, nextId>>

UnstageOutcomes == {"ok", "raises"}

\* blob.delete() outside its own try/except: a failed delete reaches the except clause.
UnstageLocals_unguarded(t, outcome) ==
    IF outcome = "ok"
    THEN [Stage(t, "unstage") EXCEPT !.deleted = outcome, !.pc = "finally"]
    ELSE Raise([Stage(t, "unstage") EXCEPT !.deleted = outcome], <<"delete: ", outcome>>)

UnstageLocals(t, outcome) ==
    [Stage(t, "unstage") EXCEPT !.deleted = outcome, !.pc = "finally"]

\* lines 151-155: blob.delete(), a failure only logged
Unstage(request_id, outcome) ==
    /\ tasks[request_id].pc = "unstage"
    /\ bucket' = IF outcome = "raises" THEN bucket
                 ELSE [b \in DOMAIN bucket \ {blob_name(request_id)} |-> bucket[b]]
    /\ tasks' = [tasks EXCEPT ![request_id] = UnstageLocals(@, outcome)]
    /\ ref' = Replay(request_id, UnstageLocals(ref[request_id], outcome))
    /\ UNCHANGED <<ledger, fs, nextId>>

\* The except clause recording a fixed text instead of str(e).
ExceptLocals_fixed_text(t, w) ==
    [t EXCEPT !.writes = Append(@, Write("FAILURE", [error |-> <<"Build failed">>])),
              !.stored = Append(@, w.stored),
              !.raised = w.raised,
              !.pc = "finally"]

\* An except clause that goes on to delete the staged object.
ExceptLocals_then_unstage(t, w) ==
    [t EXCEPT !.writes = Append(@, Write("FAILURE", [error |-> t.e])),
              !.stored = Append(@, w.stored),
              !.raised = w.raised,
              !.pc = "unstage"]

ExceptLocals(t, w) ==
    [t EXCEPT !.writes = Append(@, Write("FAILURE", [error |-> t.e])),
              !.stored = Append(@, w.stored),
              !.raised = w.raised,
              !.pc = "finally"]

\* lines 157-159: the except clause records FAILURE with str(e)
Except(request_id, ok) ==
    /\ tasks[request_id].pc = "except"
    /\ LET t == tasks[request_id]
           w == update_firestore_status(ledger, request_id, "FAILURE", [error |-> t.e], ok, Clock(tasks[request_id]))
           wref == update_firestore_status(ledger, request_id, "FAILURE", [error |-> t.e],
                                           TRUE, Clock(tasks[request_id]))
       IN /\ ledger' = w.ledger
          /\ tasks' = [tasks EXCEPT ![request_id] = ExceptLocals(@, w)]
          /\ ref' = Replay(request_id, ExceptLocals(ref[request_id], wref))
    /\ UNCHANGED <<fs, bucket, nextId>>

\* A finally clause that removes the working directory and forgets the archive.
LocalCleanup_dir_only(files, request_id) ==
    LET dir == <<temp_dir(request_id)>>
    IN IF dir \in DOMAIN files THEN rmtree(files, dir) ELSE files

\* The filesystem after lines 162-165.
LocalCleanup(files, request_id) ==
    LET dir == <<temp_dir(request_id)>>
        zip == <<archive_path(request_id)>>
        afterDir == IF dir \in DOMAIN files THEN rmtree(files, dir) ELSE files
    IN IF zip \in DOMAIN afterDir THEN remove(afterDir, zip) ELSE afterDir

\* A task that starts over after a failed run instead of ending.
FinallyLocals_retry(t) ==
    IF t.e # NoError
    THEN [Stage(t, "cleanup") EXCEPT !.pc = "in_progress", !.e = NoError]
    ELSE [Stage(t, "cleanup") EXCEPT !.pc = "done"]

FinallyLocals(t) == [Stage(t, "cleanup") EXCEPT !.pc = "done"]

\* lines 160-165: the finally clause
Finally(request_id) ==
    /\ tasks[request_id].pc = "finally"
    /\ fs' = LocalCleanup(fs, request_id)
    /\ tasks' = [tasks EXCEPT ![request_id] = FinallyLocals(@)]
    /\ ref' = Replay(request_id, FinallyLocals(ref[request_id]))
    /\ UNCHANGED <<ledger, bucket, nextId>>

Next ==
    \/ \E data \in Payloads : DeployRejected(data)
    \/ \E data \in Payloads, ok \in BOOLEAN : DeployAccepted(data, ok)
    \/ \E r \in RequestIds : ThreadStart(r)
    \/ \E r \in RequestIds \cup {"unknown"}, ok \in BOOLEAN : CheckStatus(r, ok)
    \/ \E r \in RequestIds, ok \in BOOLEAN : InProgress(r, ok)
    \/ \E r \in RequestIds, outcome \in CloneOutcomes : Clone(r, outcome)
    \/ \E r \in RequestIds, ok \in BOOLEAN : CheckDockerfile(r, ok)
    \/ \E r \in RequestIds, outcome \in ZipOutcomes : Zip(r, outcome)
    \/ \E r \in RequestIds, outcome \in UploadOutcomes : Upload(r, outcome)
    \/ \E r \in RequestIds, outcome \in SubmitOutcomes : Submit(r, outcome)
    \/ \E r \in RequestIds, outcome \in AwaitOutcomes : Await(r, outcome)
    \/ \E r \in RequestIds, ok \in BOOLEAN : RecordResult(r, ok)
    \/ \E r \in RequestIds, outcome \in UnstageOutcomes : Unstage(r, outcome)
    \/ \E r \in RequestIds, ok \in BOOLEAN : Except(r, ok)
    \/ \E r \in RequestIds : Finally(r)

Spec == Init /\ [][Next]_vars

(***************************************************************************)
(* zip_directory on its own: any tree below a folder, with files beside    *)
(* the folder, is archived into a file outside the folder, as every call   *)
(* of the program has it (archive_path is temp_dir with ".zip" appended).  *)
(***************************************************************************)
\* Directories nest at most this deep below the folder.
MaxDepth == 2

ZipNames == {"a", "b"}

ZipFolder == <<"d">>

ZipOutput == <<"d.zip">>

\* The paths, relative to the folder, a file can have.
ZipRelPaths == UNION {[1..n -> ZipNames] : n \in 1..MaxDepth}

IsProperPrefix(p, q) == Len(p) < Len(q) /\ SubSeq(q, 1, Len(p)) = p

\* The sets of files that can exist together: a file is no directory of another.
ZipTrees ==
    {tree \in SUBSET ZipRelPaths : \A p, q \in tree : ~IsProperPrefix(p, q)}

\* The filesystems zip_directory is called on: the folder with a tree, with or
\* without an empty directory in it and a file in a directory beside it.
ZipInputs ==
    {Merge(Merge(Materialize(EmptyDict, ZipFolder, tree), empty), beside) :
        tree \in ZipTrees,
        empty \in {EmptyDict, [q \in {ZipFolder \o <<"e">>} |-> DirNode]},
        beside \in {EmptyDict, Materialize(EmptyDict, <<"dx">>, {<<"a">>})}}

InitZip ==
    /\ fs \in ZipInputs
    /\ ledger = EmptyDict
    /\ bucket = EmptyDict
    /\ tasks = [r \in RequestIds |-> Unused]
    /\ ref = [r \in RequestIds |-> Unused]
    /\ nextId = 1

\* zip_directory(folder_path, output_path), lines 28-35: the archive is written
\* with one entry per file the walk finds
ZipDirectory(folder_path, output_path) ==
    /\ ~Exists(output_path)
    /\ fs' = Merge(fs, [q \in {output_path} |-> FileNode(zip_directory(fs, folder_path))])
    /\ UNCHANGED <<ledger, bucket, tasks, ref, nextId>>

NextZip == ZipDirectory(ZipFolder, ZipOutput)

SpecZip == InitZip /\ [][NextZip]_vars

(***************************************************************************)
(* The image tag on its own: a request with any source URL has come        *)
(* through fetch, check, archive and upload, and goes on from the build    *)
(* specification of lines 102-133.                                         *)
(***************************************************************************)
\* A source URL has at most this many pieces after its host.
MaxTokens == 4

\* The pieces URLs are made of: a letter, a separator, a dot, and "git".
UrlTokens == {<<"a">>, <<"/">>, <<".">>, <<"g", "i", "t">>}

RECURSIVE Flatten(_)
Flatten(ts) == IF ts = <<>> THEN <<>> ELSE Head(ts) \o Flatten(Tail(ts))

\* "h/" followed by one to MaxTokens pieces.
TagUrls ==
    {<<"h", "/">> \o Flatten(ts) : ts \in UNION {[1..n -> UrlTokens] : n \in 1..MaxTokens}}

\* The request of `github_url` at line 102, with every call before it having returned.
InitTag ==
    \E github_url \in TagUrls :
        LET r == RequestId(1)
            dir == <<temp_dir(r)>>
            md == PendingMetadata(r, github_url, "unnamed", "anonymous")
            w1 == update_firestore_status(EmptyDict, r, "PENDING", md, TRUE, 1)
            t1 == ThreadStartLocals(DeployLocals(r, [github_url |-> github_url], w1))
            w2 == update_firestore_status(w1.ledger, r, "IN_PROGRESS",
                                          [workflow_name |-> t1.workflow_name,
                                           user_id |-> t1.user_id], TRUE, Clock(t1))
            t2 == CloneLocals(InProgressLocals(t1, w2),
                              [kind |-> "ok", tree |-> RepoWithDockerfile])
            cloned == Materialize(EmptyDict, dir, RepoWithDockerfile)
            t3 == UploadLocals(ZipLocals(CheckLocals(t2, TRUE, w2), "ok"), "ok")
            entries == zip_directory(cloned, dir)
        IN /\ ledger = w2.ledger
           /\ fs = Merge(cloned, [q \in {<<archive_path(r)>>} |-> FileNode(entries)])
           /\ bucket = [b \in {blob_name(r)} |-> entries]
           /\ tasks = [x \in RequestIds |-> IF x = r THEN t3 ELSE Unused]
           /\ ref = [x \in RequestIds |-> IF x = r THEN t3 ELSE Unused]
           /\ nextId = 2

NextTag ==
    \/ \E r \in RequestIds, outcome \in SubmitOutcomes : Submit(r, outcome)
    \/ \E r \in RequestIds, outcome \in AwaitOutcomes : Await(r, outcome)
    \/ \E r \in RequestIds, ok \in BOOLEAN : RecordResult(r, ok)
    \/ \E r \in RequestIds, outcome \in UnstageOutcomes : Unstage(r, outcome)
    \/ \E r \in RequestIds, ok \in BOOLEAN : Except(r, ok)
    \/ \E r \in RequestIds : Finally(r)

SpecTag == InitTag /\ [][NextTag]_vars

(***************************************************************************)
(* Vocabulary of the properties.                                           *)
(***************************************************************************)
Terminal == {"SUCCESS", "FAILURE"}

\* The ledger document of a request, empty when there is none.
Doc(led, request_id) == Get(led, request_id, EmptyDict)

StatusIn(led, request_id) == Get(Doc(led, request_id), "status", "none")

\* The ledger holds `status` and every key of `metadata` for the request.
Holds(request_id, status, metadata) ==
    /\ StatusIn(ledger, request_id) = status
    /\ \A k \in DOMAIN metadata :
          k \in DOMAIN ledger[request_id] /\ ledger[request_id][k] = metadata[k]

Done(request_id) == tasks[request_id].pc = "done"

\* The thread is past its try block: in the finally clause or finished.
Leaving(request_id) == tasks[request_id].pc \in {"finally", "done"}

IsTerminalWrite(w) == w.status \in Terminal

TerminalWrites(t) == SelectSeq(t.writes, IsTerminalWrite)

LastStored(t) == t.stored[Len(t.stored)]

Attempted(t) == {t.trace[i] : i \in 1..Len(t.trace)}

HasLocalArtifact(request_id) ==
    \E p \in DOMAIN fs : p[1] \in {temp_dir(request_id), archive_path(request_id)}

HasStagedObject(request_id) == blob_name(request_id) \in DOMAIN bucket

\* The task made `w` its one terminal write, and the ledger shows it exactly when
\* Firestore stored it.
RecordedBestEffort(request_id, w) ==
    LET t == tasks[request_id]
    IN /\ TerminalWrites(t) = <<w>>
       /\ t.writes[Len(t.writes)] = w
       /\ LastStored(t) => Holds(request_id, w.status, w.metadata)
       /\ ~LastStored(t) => StatusIn(ledger, request_id) \notin Terminal

(***************************************************************************)
(* C1. Terminal status is absorbing: once the ledger document of a request *)
(* shows SUCCESS or FAILURE, no step of any handler or thread changes the  *)
(* status of that document.                                                *)
(***************************************************************************)
C1_TerminalAbsorbing ==
    [][\A r \in RequestIds :
          StatusIn(ledger, r) \in Terminal => StatusIn(ledger', r) = StatusIn(ledger, r)]_vars

\* Two requests finished, one SUCCESS whose staged-object delete raised afterwards,
\* one FAILURE.
C1_Witness ==
    \E r1, r2 \in RequestIds :
        /\ Done(r1) /\ Done(r2)
        /\ StatusIn(ledger, r1) = "SUCCESS" /\ tasks[r1].deleted = "raises"
        /\ StatusIn(ledger, r2) = "FAILURE"

(***************************************************************************)
(* C2. Missing Dockerfile.  As claimed: after a fetch whose tree has no    *)
(* Dockerfile at its root the run ends with FAILURE and the error          *)
(* "No Dockerfile found" in the ledger, and archive, stage, submit and     *)
(* await are never attempted.                                              *)
(***************************************************************************)
NoStageAfterCheck(t) ==
    Attempted(t) \cap {"archive", "stage", "submit", "await", "unstage"} = {}

C2_Original ==
    \A r \in RequestIds :
        tasks[r].dockerfile = "missing" =>
            /\ NoStageAfterCheck(tasks[r])
            /\ Done(r) => Holds(r, "FAILURE", NoDockerfile)

\* C2 as amended: the task makes the FAILURE write with "No Dockerfile found" as
\* its only terminal write and attempts none of archive, stage, submit, await; the
\* ledger shows that FAILURE unless Firestore failed that write.
C2_MissingDockerfile ==
    \A r \in RequestIds :
        tasks[r].dockerfile = "missing" =>
            /\ NoStageAfterCheck(tasks[r])
            /\ Leaving(r) => RecordedBestEffort(r, Write("FAILURE", NoDockerfile))

C2_Witness ==
    \E r \in RequestIds :
        /\ Done(r)
        /\ tasks[r].dockerfile = "missing"
        /\ Holds(r, "FAILURE", NoDockerfile)

(***************************************************************************)
(* C3. Every started task reaches a terminal ledger status.  As claimed,   *)
(* for the end of a run: when the thread has finished, the ledger document *)
(* of its request shows SUCCESS or FAILURE.                                *)
(***************************************************************************)
C3_Original ==
    \A r \in RequestIds : Done(r) => StatusIn(ledger, r) \in Terminal

\* The statements of build_and_push_task; each is the guard of one action.
Statements ==
    {"in_progress", "clone", "check", "zip", "upload", "submit", "await", "record",
     "unstage", "except", "finally"}

Running(r) == tasks[r].pc \notin {"unused", "thread_start", "done"}

\* How far a statement is from the end of the thread.
Rank(pc) ==
    CASE pc = "done" -> 0
      [] pc = "finally" -> 1
      [] pc = "except" -> 2
      [] pc = "unstage" -> 3
      [] pc = "record" -> 4
      [] pc = "await" -> 5
      [] pc = "submit" -> 6
      [] pc = "upload" -> 7
      [] pc = "zip" -> 8
      [] pc = "check" -> 9
      [] pc = "clone" -> 10
      [] pc = "in_progress" -> 11
      [] pc = "thread_start" -> 12
      [] pc = "unused" -> 13

\* C3 as amended: a started thread is always at a statement that has a step, and
\* every step brings it nearer the end of the function, so it finishes once each
\* external call has returned or raised; when it has finished it has made exactly
\* one terminal write, SUCCESS or FAILURE, as its last write, and the ledger shows
\* that status if Firestore stored the write and no terminal status if it did not.
C3_ReachesTerminalWrite ==
    /\ [](\A r \in RequestIds :
            /\ Running(r) => tasks[r].pc \in Statements
            /\ Done(r) =>
                  /\ Len(TerminalWrites(tasks[r])) = 1
                  /\ RecordedBestEffort(r, tasks[r].writes[Len(tasks[r].writes)]))
    /\ [][\A r \in RequestIds :
             tasks'[r] # tasks[r] => Rank(tasks'[r].pc) < Rank(tasks[r].pc)]_vars

\* A finished run whose terminal write Firestore failed, and one whose it stored.
C3_Witness ==
    \E r1, r2 \in RequestIds :
        /\ Done(r1) /\ ~LastStored(tasks[r1]) /\ StatusIn(ledger, r1) = "IN_PROGRESS"
        /\ Done(r2) /\ LastStored(tasks[r2]) /\ StatusIn(ledger, r2) \in Terminal

(***************************************************************************)
(* C4. When build_and_push_task has exited, by whichever path, neither the *)
(* working directory temp_build_{request_id} (nor anything below it) nor   *)
(* the archive temp_build_{request_id}.zip exists.                         *)
(***************************************************************************)
C4_LocalCleanup ==
    \A r \in RequestIds : Done(r) => ~HasLocalArtifact(r)

\* A finished run that had created both its directory and its archive, and one
\* whose zip raised and left a partial archive.
C4_Witness ==
    \E r1, r2 \in RequestIds :
        /\ Done(r1) /\ "stage" \in Attempted(tasks[r1])
        /\ Done(r2) /\ tasks[r2].e = <<"zip: ", "raises with a partial file">>

(***************************************************************************)
(* C5. Once a run has a terminal ledger status and its thread has          *)
(* finished, the working directory, the archive and the staged object      *)
(* source/{request_id}.zip are all gone, whatever the outcome.             *)
(***************************************************************************)
C5_Original ==
    \A r \in RequestIds :
        (Done(r) /\ StatusIn(ledger, r) \in Terminal) =>
            ~HasLocalArtifact(r) /\ ~HasStagedObject(r)

(***************************************************************************)
(* C6. A failing ledger write never aborts or alters the pipeline: with    *)
(* any choice of the writes that fail, the stages attempted and the status *)
(* writes attempted are those of the same run with every write succeeding  *)
(* (ref), at every step.                                                   *)
(***************************************************************************)
C6_LedgerFailureIndependent ==
    \A r \in RequestIds :
        /\ tasks[r].pc = ref[r].pc
        /\ tasks[r].trace = ref[r].trace
        /\ tasks[r].writes = ref[r].writes

\* A run that got through the whole pipeline with all three of its writes failing.
C6_Witness ==
    \E r \in RequestIds :
        /\ Done(r)
        /\ tasks[r].stored = <<FALSE, FALSE, FALSE>>
        /\ tasks[r].trace =
              <<"fetch", "check", "archive", "stage", "submit", "await", "unstage", "cleanup">>

(***************************************************************************)
(* C7. A failing delete of the staged object never changes the recorded    *)
(* status: once the build has reached a terminal state and the task has    *)
(* made its terminal write, no step (the delete, whether it returns or     *)
(* raises, and what follows it) changes the ledger document of the request *)
(* or makes a further write.                                               *)
(***************************************************************************)
C7_UnstageFailureHarmless ==
    [][\A r \in RequestIds :
          (tasks[r].result # "" /\ tasks[r].pc # "record") =>
              /\ Doc(ledger', r) = Doc(ledger, r)
              /\ tasks'[r].writes = tasks[r].writes]_vars

\* Two finished runs of successful builds with the same ledger status, the delete
\* having raised in one and returned in the other.
C7_Witness ==
    \E r1, r2 \in RequestIds :
        /\ Done(r1) /\ tasks[r1].deleted = "raises" /\ HasStagedObject(r1)
        /\ Done(r2) /\ tasks[r2].deleted = "ok"
        /\ tasks[r1].result = tasks[r2].result
        /\ StatusIn(ledger, r1) = "SUCCESS" /\ StatusIn(ledger, r2) = "SUCCESS"

(***************************************************************************)
(* C8. A stage that raises.  As claimed: when fetch, archive, upload,      *)
(* submit or await raises, the ledger ends with FAILURE and the error text *)
(* as `error`, no later stage is attempted and the failed stage is not     *)
(* attempted again.                                                        *)
(***************************************************************************)
StageOrder == <<"fetch", "check", "archive", "stage", "submit", "await">>

\* The stages attempted are those up to a raising stage, each once, then at most
\* the local cleanup.
StopsAtRaisingStage(t) ==
    \E k \in (DOMAIN StageOrder) \ {2} :
        t.trace \in {SubSeq(StageOrder, 1, k), SubSeq(StageOrder, 1, k) \o <<"cleanup">>}

C8_Original ==
    \A r \in RequestIds :
        tasks[r].e # NoError =>
            /\ StopsAtRaisingStage(tasks[r])
            /\ Done(r) => Holds(r, "FAILURE", [error |-> tasks[r].e])

\* C8 as amended: the task makes the FAILURE write with the error text as its only
\* terminal write, attempts no later stage and does not retry; the ledger shows
\* that FAILURE unless Firestore failed that write.
C8_StageRaises ==
    \A r \in RequestIds :
        tasks[r].e # NoError =>
            /\ StopsAtRaisingStage(tasks[r])
            /\ Leaving(r) => RecordedBestEffort(r, Write("FAILURE", [error |-> tasks[r].e]))

C8_Witness ==
    \E r \in RequestIds :
        /\ Done(r)
        /\ tasks[r].e = <<"create_build: ", "raises">>
        /\ Holds(r, "FAILURE", [error |-> tasks[r].e])

(***************************************************************************)
(* C9. Full success path.  As claimed: when every stage succeeds and the   *)
(* build ends SUCCESS, the ledger ends with SUCCESS, the image tag and the *)
(* build id, and the staged object is gone once the task has completed.    *)
(***************************************************************************)
\* {region}-docker.pkg.dev/{project}/{repo}/app:{requestId} for UrlApp
ExpectedTag(request_id) ==
    <<"REGION", "-docker.pkg.dev/", "PROJECT", "/", "REPO", "/", <<"a", "p", "p">>, ":",
      request_id>>

SuccessMetadata(request_id) ==
    [image_tag |-> ExpectedTag(request_id), build_id |-> "build-" \o request_id]

C9_Original ==
    \A r \in RequestIds :
        (Done(r) /\ tasks[r].result = "SUCCESS") =>
            /\ Holds(r, "SUCCESS", SuccessMetadata(r))
            /\ ~HasStagedObject(r)

\* C9 as amended: the task makes the SUCCESS write with image_tag and build_id as
\* its only terminal write, and the ledger shows it unless Firestore failed that
\* write; the staged object is gone after the task unless its delete raised.
C9_SuccessPath ==
    \A r \in RequestIds :
        (tasks[r].result = "SUCCESS" /\ tasks[r].pc # "record") =>
            /\ RecordedBestEffort(r, Write("SUCCESS", SuccessMetadata(r)))
            /\ (Done(r) /\ tasks[r].deleted = "ok") => ~HasStagedObject(r)
            /\ Done(r) => tasks[r].deleted \in {"ok", "raises"}

C9_Witness ==
    \E r \in RequestIds :
        /\ Done(r)
        /\ tasks[r].result = "SUCCESS"
        /\ Holds(r, "SUCCESS", SuccessMetadata(r))
        /\ ~HasStagedObject(r)

(***************************************************************************)
(* C10. Remote build failure.  As claimed: when the build ends in a        *)
(* terminal state other than SUCCESS, the ledger ends with FAILURE, the    *)
(* build id and an error naming the reported state, never with SUCCESS,    *)
(* and the working directory and the archive are gone when the task exits. *)
(***************************************************************************)
BuildFailed(t) == t.result \in BuildStatuses \ {"SUCCESS"}

BuildFailureMetadata(t, request_id) ==
    [build_id |-> "build-" \o request_id,
     error |-> <<"Cloud Build failed with status: ", t.result>>]

C10_Original ==
    \A r \in RequestIds :
        (Done(r) /\ BuildFailed(tasks[r])) =>
            /\ Holds(r, "FAILURE", BuildFailureMetadata(tasks[r], r))
            /\ ~HasLocalArtifact(r)

\* C10 as amended: the task makes the FAILURE write with build_id and the error as
\* its only terminal write, the ledger never shows SUCCESS and shows that FAILURE
\* unless Firestore failed the write; the directory and the archive are gone when
\* the task exits.
C10_BuildFailure ==
    \A r \in RequestIds :
        (BuildFailed(tasks[r]) /\ tasks[r].pc # "record") =>
            /\ RecordedBestEffort(r, Write("FAILURE", BuildFailureMetadata(tasks[r], r)))
            /\ StatusIn(ledger, r) # "SUCCESS"
            /\ Done(r) => ~HasLocalArtifact(r)

C10_Witness ==
    \E r \in RequestIds :
        /\ Done(r)
        /\ tasks[r].result = "TIMEOUT"
        /\ Holds(r, "FAILURE", BuildFailureMetadata(tasks[r], r))
        /\ ~HasLocalArtifact(r)
(***************************************************************************)
(* C11. PENDING is written by deploy before the thread is started.  As     *)
(* claimed: the first write of a request is deploy's PENDING write and     *)
(* every write of the task comes after it, and once deploy has returned    *)
(* the request id a status query answers 200 with a record, PENDING until  *)
(* the task writes, never 404.                                             *)
(***************************************************************************)
\* deploy has started the thread and returned the request id.
Returned(request_id) == tasks[request_id].pc \notin {"unused", "thread_start"}

\* The write deploy makes for the request, from the locals it passes to the thread.
PendingWrite(request_id) ==
    LET t == tasks[request_id]
    IN Write("PENDING", PendingMetadata(request_id, t.github_url, t.workflow_name, t.user_id))

\* The first write of the request is deploy's PENDING write; the task's writes
\* come after it and none of them is PENDING.
PendingFirst(request_id) ==
    LET t == tasks[request_id]
    IN /\ Len(t.writes) >= 1
       /\ t.writes[1] = PendingWrite(request_id)
       /\ \A i \in 2..Len(t.writes) : t.writes[i].status # "PENDING"

\* Some write of the request after its first one has been stored.
LaterStored(t) == \E i \in 2..Len(t.stored) : t.stored[i]

AnyStored(t) == \E i \in 1..Len(t.stored) : t.stored[i]

C11_Original ==
    \A r \in RequestIds :
        /\ tasks[r].pc # "unused" => PendingFirst(r)
        /\ Returned(r) =>
              /\ check_status(ledger, r, TRUE).code = 200
              /\ Len(tasks[r].writes) = 1 =>
                    check_status(ledger, r, TRUE).body.status = "PENDING"

\* C11 as amended: deploy makes the PENDING write before it starts the thread and
\* every write of the task comes after it; once deploy has returned, a status
\* query whose read succeeds answers 404 exactly when Firestore has stored none of
\* the writes of the request so far, and otherwise 200, with status PENDING
\* exactly when the PENDING write was stored and no later write has been.
C11_PendingFirst ==
    \A r \in RequestIds :
        /\ tasks[r].pc # "unused" => PendingFirst(r)
        /\ Returned(r) =>
              LET t == tasks[r]
                  answer == check_status(ledger, r, TRUE)
              IN /\ answer.code = (IF AnyStored(t) THEN 200 ELSE 404)
                 /\ AnyStored(t) =>
                       (answer.body.status = "PENDING" <=> (t.stored[1] /\ ~LaterStored(t)))

\* deploy has returned, the thread has made a (failed) IN_PROGRESS write, and the
\* query still answers PENDING; another request's task has taken the status on.
C11_Witness ==
    \E r1, r2 \in RequestIds :
        /\ Returned(r1) /\ tasks[r1].stored = <<TRUE, FALSE>>
        /\ check_status(ledger, r1, TRUE) = Response(200, [status |-> "PENDING", request_id |-> r1])
        /\ Returned(r2) /\ tasks[r2].stored = <<TRUE, TRUE>>
        /\ check_status(ledger, r2, TRUE).body.status = "IN_PROGRESS"

(***************************************************************************)
(* C12. The recorded status of a request only moves forward in the order   *)
(* no record, PENDING, IN_PROGRESS, terminal: no step of any handler or    *)
(* thread takes the status of a ledger document to an earlier one, also    *)
(* when some of the ledger writes fail.                                    *)
(***************************************************************************)
StatusRank(status) ==
    CASE status = "none" -> 0
      [] status = "PENDING" -> 1
      [] status = "IN_PROGRESS" -> 2
      [] status \in Terminal -> 3

C12_StatusForward ==
    [][\A r \in RequestIds :
          StatusRank(StatusIn(ledger', r)) >= StatusRank(StatusIn(ledger, r))]_vars

\* A finished run whose status went through all three, and one whose IN_PROGRESS
\* write failed so that the status went from PENDING to terminal.
C12_Witness ==
    \E r1, r2 \in RequestIds :
        /\ Done(r1) /\ tasks[r1].stored = <<TRUE, TRUE, TRUE>>
        /\ Done(r2) /\ tasks[r2].stored = <<TRUE, FALSE, TRUE>>
        /\ StatusIn(ledger, r1) \in Terminal /\ StatusIn(ledger, r2) \in Terminal

(***************************************************************************)
(* C13. Ledger writes are merge-upserts.  A step that makes a write for a  *)
(* request changes, in the document of that request, only status,          *)
(* timestamp and the metadata keys it supplies, which take the supplied    *)
(* values when Firestore stores the write; every other field keeps its     *)
(* value and no field is removed.  A step that makes no write for the      *)
(* request leaves its document as it is.                                   *)
(***************************************************************************)
SuppliedKeys(w) == {"status", "timestamp"} \cup DOMAIN w.metadata

C13_MergeUpsert ==
    [][\A r \in RequestIds :
          LET old == Doc(ledger, r)
              new == Doc(ledger', r)
              n == Len(tasks'[r].writes)
          IN IF n = Len(tasks[r].writes)
             THEN new = old
             ELSE LET w == tasks'[r].writes[n]
                  IN /\ \A k \in DOMAIN old \ SuppliedKeys(w) :
                           k \in DOMAIN new /\ new[k] = old[k]
                     /\ DOMAIN old \subseteq DOMAIN new
                     /\ DOMAIN new \subseteq DOMAIN old \cup SuppliedKeys(w)
                     /\ tasks'[r].stored[n] =>
                           /\ new["status"] = w.status
                           /\ \A k \in DOMAIN w.metadata : new[k] = w.metadata[k]
                     /\ ~tasks'[r].stored[n] => new = old]_vars

\* What deploy wrote for a request, as its document shows it.
PendingFieldsKept(request_id) ==
    LET md == PendingWrite(request_id).metadata
    IN \A k \in DOMAIN md : k \in DOMAIN Doc(ledger, request_id) /\ ledger[request_id][k] = md[k]

\* After three stored writes each, a SUCCESS document that still has the fields of
\* the PENDING write beside image_tag and build_id, and a FAILURE document that
\* has them beside error.
C13_Witness ==
    \E r1, r2 \in RequestIds :
        /\ Done(r1) /\ tasks[r1].stored = <<TRUE, TRUE, TRUE>>
        /\ Holds(r1, "SUCCESS", SuccessMetadata(r1)) /\ PendingFieldsKept(r1)
        /\ Done(r2) /\ tasks[r2].stored = <<TRUE, TRUE, TRUE>>
        /\ Holds(r2, "FAILURE", NoDockerfile) /\ PendingFieldsKept(r2)
        /\ DOMAIN ledger[r1] =
              {"status", "timestamp", "request_id", "github_url", "workflow_name",
               "user_id", "image_tag", "build_id"}

(***************************************************************************)
(* C14. Concurrent tasks are isolated.  The names a request derives from   *)
(* its id differ from those of every other request, everything in the      *)
(* filesystem, the bucket and the ledger is named by one request, and a    *)
(* step of one request (a stage that succeeds or fails, a write, a         *)
(* cleanup) leaves the working directory, the archive, the staged object   *)
(* and the ledger document of every other request as they are.             *)
(***************************************************************************)
\* The working directory and the archive of a request, with what they hold.
LocalArtifacts(files, request_id) ==
    [p \in {q \in DOMAIN files : q[1] \in {temp_dir(request_id), archive_path(request_id)}}
        |-> files[p]]

StagedObjects(blobs, request_id) ==
    [b \in DOMAIN blobs \cap {blob_name(request_id)} |-> blobs[b]]

DistinctNames ==
    \A r1, r2 \in RequestIds :
        r1 # r2 =>
            /\ {temp_dir(r1), archive_path(r1)} \cap {temp_dir(r2), archive_path(r2)} = {}
            /\ blob_name(r1) # blob_name(r2)

\* Everything that exists is named by the id of a request that was accepted.
Owned ==
    /\ \A p \in DOMAIN fs :
          \E r \in RequestIds :
              tasks[r].pc # "unused" /\ p[1] \in {temp_dir(r), archive_path(r)}
    /\ \A b \in DOMAIN bucket : \E r \in RequestIds : tasks[r].pc # "unused" /\ b = blob_name(r)
    /\ \A d \in DOMAIN ledger : d \in RequestIds /\ tasks[d].pc # "unused"

C14_Isolated ==
    /\ [](DistinctNames /\ Owned)
    /\ [][\A r \in RequestIds :
             tasks'[r] = tasks[r] =>
                 /\ LocalArtifacts(fs', r) = LocalArtifacts(fs, r)
                 /\ StagedObjects(bucket', r) = StagedObjects(bucket, r)
                 /\ Doc(ledger', r) = Doc(ledger, r)]_vars

\* One task has failed at submit and cleaned up while the other, with SUCCESS
\* recorded, still has its directory, its archive and its staged object.
C14_Witness ==
    \E r1, r2 \in RequestIds :
        /\ Done(r1) /\ tasks[r1].e = <<"create_build: ", "raises">>
        /\ tasks[r2].pc = "unstage" /\ StatusIn(ledger, r2) = "SUCCESS"
        /\ DOMAIN LocalArtifacts(fs, r2) # {} /\ DOMAIN StagedObjects(bucket, r2) # {}
        /\ DOMAIN LocalArtifacts(fs, r1) = {}

(***************************************************************************)
(* C15. A status query for an id that has no ledger document answers 404   *)
(* "Deployment not found" when its read returns, not 500 and not 200; and  *)
(* no query creates or changes a ledger document: the ledger changes only  *)
(* in a step in which deploy or a task makes a write.                      *)
(***************************************************************************)
QueriedIds == RequestIds \cup {"unknown"}

NotFound == Response(404, [error |-> "Deployment not found"])

C15_NotFound ==
    /\ [](\A id \in QueriedIds :
            /\ id \notin DOMAIN ledger => check_status(ledger, id, TRUE) = NotFound
            /\ id \in DOMAIN ledger => check_status(ledger, id, TRUE).code = 200)
    /\ [][ledger' # ledger =>
             \E r \in RequestIds : Len(tasks'[r].writes) > Len(tasks[r].writes)]_vars

\* The ledger has a document, and both an id never handed out and the id of an
\* accepted request whose writes all failed are answered 404.
C15_Witness ==
    \E r1, r2 \in RequestIds :
        /\ r1 \in DOMAIN ledger
        /\ check_status(ledger, "unknown", TRUE) = NotFound
        /\ Done(r2) /\ check_status(ledger, r2, TRUE) = NotFound

(***************************************************************************)
(* C16. zip_directory(D, out), with out outside D, writes an archive whose *)
(* entry names are exactly the paths relative to D of the files below D:   *)
(* every entry, put after D, is the path of a file (no extra entry, no     *)
(* nesting prefix), and every file below D is some entry put after D (no   *)
(* exclusion).  Empty directories and files beside D give no entry.        *)
(***************************************************************************)
C16_ZipEntries ==
    Exists(ZipOutput) =>
        LET entries == fs[ZipOutput].data
        IN /\ \A e \in entries :
                 /\ e # <<>>
                 /\ Exists(ZipFolder \o e) /\ fs[ZipFolder \o e].kind = "file"
           /\ \A p \in DOMAIN fs :
                 (fs[p].kind = "file" /\ IsUnder(p, ZipFolder)) =>
                     \E e \in entries : ZipFolder \o e = p

\* An archive of a tree with a file at the root and files two levels down, made
\* beside an empty directory and a file outside the folder.
C16_Witness ==
    /\ Exists(ZipOutput)
    /\ fs[ZipOutput].data = {<<"a">>, <<"b", "a">>, <<"b", "b">>}
    /\ Exists(ZipFolder \o <<"e">>)
    /\ Exists(<<"dx", "a">>)

(***************************************************************************)
(* C17. The image tag.  As claimed: for every source URL the tag is        *)
(* {region}-docker.pkg.dev/{projectId}/{repositoryName}/{base}:{requestId} *)
(* where base is the final path segment of the URL with ".git" taken off   *)
(* its end and otherwise unchanged, and that tag is in the arguments of    *)
(* both build steps, in the build's images and in the SUCCESS metadata.    *)
(***************************************************************************)
\* The part of the URL after its last "/", the whole URL if it has none.
FinalSegment(url) ==
    CHOOSE seg \in {SubSeq(url, i, Len(url)) : i \in 1..(Len(url) + 1)} :
        /\ \A k \in 1..Len(seg) : seg[k] # "/"
        /\ Len(seg) = Len(url) \/ url[Len(url) - Len(seg)] = "/"

EndsWith(s, suffix) ==
    Len(s) >= Len(suffix) /\ SubSeq(s, Len(s) - Len(suffix) + 1, Len(s)) = suffix

StripSuffix(s, suffix) ==
    IF EndsWith(s, suffix) THEN SubSeq(s, 1, Len(s) - Len(suffix)) ELSE s

ClaimedTag(url, request_id) ==
    <<"REGION", "-docker.pkg.dev/", "PROJECT", "/", "REPO", "/",
      StripSuffix(FinalSegment(url), GitSuffix), ":", request_id>>

Submitted(t) == t.build.images # <<>>

C17_Original ==
    \A r \in RequestIds :
        Submitted(tasks[r]) =>
            LET t == tasks[r]
                tag == ClaimedTag(t.github_url, r)
            IN /\ t.build.steps[1].args = <<"build", "-t", tag, ".">>
               /\ t.build.steps[2].args = <<"push", tag>>
               /\ t.build.images = <<tag>>
               /\ \A i \in 1..Len(t.writes) :
                     t.writes[i].status = "SUCCESS" => t.writes[i].metadata.image_tag = tag

(***************************************************************************)
(* C18. The delete of source/{request_id}.zip is attempted only after the  *)
(* build has reached a terminal state: never in a run in which fetch, the  *)
(* Dockerfile check, archive, upload, submit or await failed, never more   *)
(* than once, and exactly once, before the task leaves its try block, in   *)
(* every run in which await returned a terminal state.                     *)
(***************************************************************************)
Times(t, stage) == Cardinality({i \in 1..Len(t.trace) : t.trace[i] = stage})

AwaitReturned(t) == t.result \in BuildStatuses

C18_UnstageAfterBuild ==
    \A r \in RequestIds :
        LET t == tasks[r]
        IN /\ Times(t, "unstage") <= 1
           /\ Times(t, "unstage") = 1 => (AwaitReturned(t) /\ t.e = NoError)
           /\ (t.e # NoError \/ t.dockerfile = "missing") => Times(t, "unstage") = 0
           /\ (AwaitReturned(t) /\ Leaving(r)) => Times(t, "unstage") = 1

\* A finished run whose build ended FAILURE, with its one delete, beside a finished
\* run whose await raised, with none.
C18_Witness ==
    \E r1, r2 \in RequestIds :
        /\ Done(r1) /\ tasks[r1].result = "FAILURE" /\ Times(tasks[r1], "unstage") = 1
        /\ Done(r2) /\ tasks[r2].e = <<"operation.result: ", "raises">>
        /\ Times(tasks[r2], "unstage") = 0 /\ HasStagedObject(r2)

(***************************************************************************)
(* C19. SUCCESS only after the whole pipeline.  When a SUCCESS write has   *)
(* been made for a request, or its ledger document shows SUCCESS, then in  *)
(* that run fetch, the Dockerfile check, archive, upload, submit and await *)
(* were each attempted exactly once, in that order, none of them raised,   *)
(* the Dockerfile was found and await returned SUCCESS.                    *)
(***************************************************************************)
SuccessWritten(t) == \E i \in 1..Len(t.writes) : t.writes[i].status = "SUCCESS"

WholePipeline(t) ==
    /\ Len(t.trace) >= Len(StageOrder)
    /\ SubSeq(t.trace, 1, Len(StageOrder)) = StageOrder
    /\ \A i \in DOMAIN StageOrder : Times(t, StageOrder[i]) = 1
    /\ t.dockerfile = "found"
    /\ t.e = NoError
    /\ t.result = "SUCCESS"

C19_SuccessOnlyAfterPipeline ==
    \A r \in RequestIds :
        (SuccessWritten(tasks[r]) \/ StatusIn(ledger, r) = "SUCCESS") =>
            WholePipeline(tasks[r])

\* A request with SUCCESS in the ledger beside one that stopped short of it, its
\* build having ended TIMEOUT.
C19_Witness ==
    \E r1, r2 \in RequestIds :
        /\ Done(r1) /\ StatusIn(ledger, r1) = "SUCCESS" /\ WholePipeline(tasks[r1])
        /\ Done(r2) /\ tasks[r2].result = "TIMEOUT" /\ StatusIn(ledger, r2) = "FAILURE"

(***************************************************************************)
(* C20. Order of the writes and the cleanups in a run of                   *)
(* build_and_push_task: when the delete of the staged object or the local  *)
(* cleanup is attempted the terminal write has been made; when the working *)
(* directory is created (or exists) the IN_PROGRESS write has been made;   *)
(* and once the local cleanup has begun no write is made for the request   *)
(* and its ledger document does not change.                                *)
(***************************************************************************)
InProgressWritten(t) == Len(t.writes) >= 2 /\ t.writes[2].status = "IN_PROGRESS"

WorkingDirectoryExists(request_id) == Exists(<<temp_dir(request_id)>>)

C20_WriteOrder ==
    /\ [](\A r \in RequestIds :
            LET t == tasks[r]
            IN /\ (Times(t, "unstage") > 0 \/ Times(t, "cleanup") > 0 \/ Leaving(r)) =>
                     Len(TerminalWrites(t)) = 1
               /\ (Times(t, "fetch") > 0 \/ WorkingDirectoryExists(r)) => InProgressWritten(t))
    /\ [][\A r \in RequestIds :
             (Leaving(r) \/ Times(tasks[r], "cleanup") > 0) =>
                 /\ tasks'[r].writes = tasks[r].writes
                 /\ Doc(ledger', r) = Doc(ledger, r)]_vars

\* A finished run with its three writes and all its stages, and one that failed in
\* the clone with its three writes and only fetch and cleanup.
C20_Witness ==
    \E r1, r2 \in RequestIds :
        /\ Done(r1) /\ Times(tasks[r1], "unstage") = 1 /\ Len(tasks[r1].writes) = 3
        /\ Done(r2) /\ tasks[r2].trace = <<"fetch", "cleanup">>
        /\ tasks[r2].e = <<"clone raises">> /\ Len(tasks[r2].writes) = 3
====
